---- MODULE Spec2Model ----
(***************************************************************************)
(* A model of peglet (src/peglet.py): the grammar compiler parse_grammar,  *)
(* the action extension extend, and the memoized PEG interpreter           *)
(* (parse, parsing, parse_rule, really_parse_rule, parse_sequence, match). *)
(*                                                                         *)
(* Strings are sequences of one-character strings, so that the code's      *)
(* tests on the shape of a token (a leading '!', a leading '/', the        *)
(* identifier syntax) and its regular-expression splits are computed and   *)
(* not assumed.  The recursion of the interpreter is an explicit call      *)
(* stack; memos and the utmost boxes are state.                            *)
(***************************************************************************)
EXTENDS Integers, Sequences, FiniteSets, TLC

\* Bounds of the model.
MaxTextLen == 3      \* input texts over InputAlphabet have at most this length
MaxGrammarLen == 5   \* exhaustively enumerated grammar texts (SpecCompile)
MaxDepth == 10       \* cap on the depth of the call stack (left recursion)

(***************************************************************************)
(* Character classes of Python's re for the characters the model uses.     *)
(***************************************************************************)
Space == {" ", "\n", "\t"}
Letter == {"a", "b", "c", "d", "e", "f", "g", "h", "i", "j", "k", "l", "m",
           "n", "o", "p", "q", "r", "s", "t", "u", "v", "w", "x", "y", "z",
           "A", "B", "C", "D", "E", "F", "G", "H", "I", "J", "K", "L", "M",
           "N", "O", "P", "Q", "R", "S", "T", "U", "V", "W", "X", "Y", "Z"}
Digit == {"0", "1", "2", "3", "4", "5", "6", "7", "8", "9"}
IdentStart == Letter \cup {"_"}
Word == Letter \cup Digit \cup {"_"}

\* s[i:] of Python, i counted from 0.
Drop(s, i) == SubSeq(s, i + 1, Len(s))

\* The index after the longest run of characters of S in s that starts at i.
RECURSIVE SpanWhile(_, _, _)
SpanWhile(s, i, S) ==
  IF i <= Len(s) /\ s[i] \in S THEN SpanWhile(s, i + 1, S) ELSE i

\* re.match(_identifier+'$', token): the token is an identifier.
\* (The code's tokens hold no whitespace, so '$' is the end of the token.)
IsIdentifier(token) ==
  /\ Len(token) >= 1
  /\ token[1] \in IdentStart
  /\ \A k \in 2..Len(token) : token[k] \in Word

(***************************************************************************)
(* parse_grammar.                                                          *)
(***************************************************************************)

\* A match of the rule header pattern  \s(identifier)\s+=\s  at index i of s.
\* \w* and \s+ are greedy and the character that must follow each is outside
\* its class, so the longest runs are the only match.
HeaderAt(s, i) ==
  LET n1 == i + 1
      n2 == IF n1 <= Len(s) /\ s[n1] \in IdentStart
            THEN SpanWhile(s, n1 + 1, Word) ELSE n1
      w2 == SpanWhile(s, n2, Space)
      ok == /\ i <= Len(s) /\ s[i] \in Space
            /\ n2 > n1
            /\ w2 > n2
            /\ w2 + 1 <= Len(s)
            /\ s[w2] = "="
            /\ s[w2 + 1] \in Space
  IN [ok |-> ok, name |-> IF ok THEN SubSeq(s, n1, n2 - 1) ELSE <<>>,
      end |-> w2 + 2]

\* re.split(r'\s('+_identifier+')\s+=\s', s): the text before the first
\* header, then alternately a header's name and the text up to the next one.
RECURSIVE SplitHeaders(_, _, _)
SplitHeaders(s, i, start) ==
  IF i > Len(s) THEN <<SubSeq(s, start, Len(s))>>
  ELSE LET h == HeaderAt(s, i)
       IN IF h.ok
          THEN <<SubSeq(s, start, i - 1), h.name>> \o SplitHeaders(s, h.end, h.end)
          ELSE SplitHeaders(s, i + 1, start)

\* A match of the alternation separator  \s[|](?:\s|$)  at index i of s;
\* the result is the index after the match, or 0.
BarAt(s, i) ==
  IF i + 1 <= Len(s) /\ s[i] \in Space /\ s[i + 1] = "|"
  THEN IF i + 2 <= Len(s) /\ s[i + 2] \in Space THEN i + 3
       ELSE IF i + 1 = Len(s) THEN i + 2
       ELSE 0
  ELSE 0

\* re.split(r'\s[|](?:\s|$)', rhs)
RECURSIVE SplitAlts(_, _, _)
SplitAlts(s, i, start) ==
  IF i > Len(s) THEN <<SubSeq(s, start, Len(s))>>
  ELSE LET e == BarAt(s, i)
       IN IF e # 0
          THEN <<SubSeq(s, start, i - 1)>> \o SplitAlts(s, e, e)
          ELSE SplitAlts(s, i + 1, start)

\* alt.split(): the maximal runs of non-whitespace characters.
RECURSIVE SplitWords(_, _)
SplitWords(s, i) ==
  IF i > Len(s) THEN <<>>
  ELSE IF s[i] \in Space THEN SplitWords(s, i + 1)
  ELSE LET RECURSIVE WordEnd(_)
           WordEnd(j) == IF j <= Len(s) /\ s[j] \notin Space
                         THEN WordEnd(j + 1) ELSE j
           e == WordEnd(i)
       IN <<SubSeq(s, i, e - 1)>> \o SplitWords(s, e)

\* [alt.split() for alt in re.split(r'\s[|](?:\s|$)', rhs)]
Alternatives(rhs) ==
  LET alts == SplitAlts(rhs, 1, 1)
  IN [k \in 1..Len(alts) |-> SplitWords(alts[k], 1)]

StartName == <<"_", "s", "t", "a", "r", "t">>

\* A rule of the table, and a callable of it (an action).
RuleEntry(alts) == [kind |-> "rule", alts |-> alts]
Callable(fn, isPeg) == [kind |-> "callable", fn |-> fn, is_peg |-> isPeg]

\* parse_grammar(grammar): the rule table, or the exception raised.
parse_grammar(grammar) ==
  LET parts == SplitHeaders(<<" ">> \o grammar, 1, 1)
      nrules == (Len(parts) - 1) \div 2
      lhs(k) == parts[2 * k]
      rhs(k) == parts[2 * k + 1]
      names == {lhs(k) : k \in 1..nrules}
      body(n) == LET k == CHOOSE j \in 1..nrules : lhs(j) = n
                 IN RuleEntry(Alternatives(rhs(k)))
  IN IF Len(parts) = 0
     THEN [tag |-> "BadGrammar", msg |-> "No grammar"]
     ELSE IF \E k \in 1..Len(parts[1]) : parts[1][k] \notin Space
     THEN [tag |-> "BadGrammar", msg |-> "Missing left hand side"]
     ELSE IF Cardinality(names) # nrules
     THEN [tag |-> "BadGrammar", msg |-> "Multiply-defined rule(s)"]
     ELSE IF Len(parts) < 2
     THEN [tag |-> "IndexError", msg |-> "list index out of range"]
     ELSE [tag |-> "rules",
           rules |-> [n \in names \cup {StartName} |->
                        IF n = StartName THEN RuleEntry(<<<<parts[2]>>>>)
                        ELSE body(n)]]

\* extend(dic, **kwargs): the actions, overridden by the rules of the same name.
extend(dic, kwargs) ==
  [n \in DOMAIN kwargs \cup DOMAIN dic |->
     IF n \in DOMAIN dic THEN dic[n] ELSE kwargs[n]]

(***************************************************************************)
(* Values, states and the regular expressions of the model.                *)
(***************************************************************************)

\* The values a parse produces: a captured string, the tuple hug makes,
\* the offset position appends.
Str(s) == [tag |-> "str", s |-> s]
Tuple(xs) == [tag |-> "tuple", items |-> xs]
Offset(n) == [tag |-> "int", n |-> n]

\* State = namedtuple('State', 'pos vals'); None is a parsing function's failure.
State(pos, vals) == [tag |-> "State", pos |-> pos, vals |-> vals]
None == [tag |-> "None"]

\* The truth value of a parsing function's result (if st, st2 and ..., if not st):
\* a State is a non-empty tuple, so it is true whatever it holds.
Truthy(r) == r.tag = "State"

Max(a, b) == IF a >= b THEN a ELSE b

\* re.match(pattern, s) for the patterns of the model: a character matches
\* itself, '.' matches any character but a newline, '(' and ')' delimit a
\* capturing group (not nested).  p characters of s are matched so far.
RECURSIVE ReMatch(_, _, _, _, _, _)
ReMatch(pat, i, s, p, open, groups) ==
  IF i > Len(pat) THEN [ok |-> TRUE, end |-> p, groups |-> groups]
  ELSE LET c == pat[i]
       IN IF c = "(" THEN ReMatch(pat, i + 1, s, p, p, groups)
          ELSE IF c = ")"
          THEN ReMatch(pat, i + 1, s, p, open,
                       Append(groups, Str(SubSeq(s, open + 1, p))))
          ELSE IF p < Len(s) /\ (IF c = "." THEN s[p + 1] # "\n" ELSE s[p + 1] = c)
          THEN ReMatch(pat, i + 1, s, p + 1, open, groups)
          ELSE [ok |-> FALSE, end |-> 0, groups |-> <<>>]

re_match(pattern, s) == ReMatch(pattern, 1, s, 0, 0, <<>>)

\* if re.match(r'/.', token): token = token[1:]
StripSlash(token) ==
  IF Len(token) >= 2 /\ token[1] = "/" /\ token[2] # "\n"
  THEN Tail(token) ELSE token

\* match, from the regex on: None, or the state after the match.
match_regex(token, text, st) ==
  LET m == re_match(StripSlash(token), Drop(text, st.pos))
  IN IF ~m.ok THEN None
     ELSE State(st.pos + m.end, st.vals \o m.groups)

MissingRule(token) ==
  [tag |-> "BadGrammar", msg |-> "Missing rule", token |-> token]

\* match(token, rules, text, memos, utmost, st), but for its update of utmost:
\* the exception raised, or None, or the new state.
match_unchecked(token, text, st) == match_regex(token, text, st)

match_stripped_first(token, text, st) ==
  IF IsIdentifier(StripSlash(token)) THEN MissingRule(StripSlash(token))
  ELSE match_regex(token, text, st)

match(token, text, st) ==
  IF IsIdentifier(token) THEN MissingRule(token)
  ELSE match_regex(token, text, st)

(***************************************************************************)
(* The actions a caller supplies.                                          *)
(***************************************************************************)
HugName == <<"h", "u", "g">>
PositionName == <<"p", "o", "s", "i", "t", "i", "o", "n">>

\* def hug(*xs): return xs
hug(xs) == Tuple(xs)

\* def position(text, utmost, st), with position.is_peg = True
position(text, utmost, st) == State(st.pos, Append(st.vals, Offset(st.pos)))

\* The keyword arguments of Parser(grammar, **actions) for a set of names.
Actions(names) ==
  [n \in names |-> IF n = PositionName THEN Callable("position", TRUE)
                   ELSE Callable("hug", FALSE)]

\* parsing(peg, ...) for a callable peg: one with the is_peg mark is called
\* with the text, the utmost box and the state; any other is called with the
\* values, and its result becomes the only value.
ApplyAppending(c, text, utmost, st) ==
  IF c.is_peg THEN position(text, utmost, st)
  ELSE State(st.pos, Append(st.vals, hug(st.vals)))

ApplyCallable(c, text, utmost, st) ==
  IF c.is_peg THEN position(text, utmost, st)
  ELSE State(st.pos, <<hug(st.vals)>>)

(***************************************************************************)
(* The interpreter's state.                                                *)
(***************************************************************************)
VARIABLES
  grammar,     \* the grammar text given to Parser
  actions,     \* the names of the actions given to Parser
  text,        \* the text given to the parsing function
  pc,          \* where the program is
  rules,       \* the rule table Parser made
  memos,       \* parse's memo table: (name, pos) -> State or None
  utmosts,     \* the utmost boxes alive: parse's, then one per open negation
  stack,       \* the calls of parse_rule and of negations in progress
  peg,         \* the token about to be evaluated
  st,          \* the state it is evaluated from
  ret,         \* the result being returned
  outcome,     \* what Parser(grammar, **actions)(text) returned or raised
  tried,       \* history: per (name, pos), the alternatives tried and their results
  derivations, \* history: per (name, pos), how often really_parse_rule ran
  reached,     \* history: the largest end of a regex match made outside negations
  peeked,      \* history: the largest end of a regex match made inside negations
  memoizing,   \* FALSE in the reference run that never reads the memo table
  first        \* the outcome and utmost of the memoized run, once it is rerun

vars == <<grammar, actions, text, pc, rules, memos, utmosts, stack, peg, st,
          ret, outcome, tried, derivations, reached, peeked, memoizing, first>>

Top(s) == s[Len(s)]
Pop(s) == SubSeq(s, 1, Len(s) - 1)

\* The alternatives of a rule, and the one a call of really_parse_rule is at.
Alts(name) == rules[name].alts
Alternative(f) == Alts(f.name)[f.alt]

\* A call of parse_rule(name, ..., pos) made by parsing from the state caller,
\* at the first token of the first alternative: st = State(pos, ()).
RuleFrame(name, pos, caller) ==
  [kind |-> "rule", name |-> name, pos |-> pos, caller |-> caller,
   alt |-> 1, i |-> 1, st |-> State(pos, <<>>)]

\* A negation in progress: the state it was entered from.
NotFrame(s) == [kind |-> "not", st |-> s]

\* Whether the token being evaluated is (inside) the token a negation wraps.
InNegation(s) == \E k \in 1..Len(s) : s[k].kind = "not"

\* Whether (name, pos) is being derived twice at once: left recursion.
Reentered ==
  \E j, k \in 1..Len(stack) :
    /\ j < k
    /\ stack[j].kind = "rule" /\ stack[k].kind = "rule"
    /\ stack[j].name = stack[k].name /\ stack[j].pos = stack[k].pos

\* st2 and State(st2.pos, st.vals + st2.vals)
Combine(s, s2) == IF Truthy(s2) THEN State(s2.pos, s.vals \o s2.vals) ELSE s2

\* return None if parsing(peg[1:], ...) else st
NotResultFresh(r, s) == IF Truthy(r) THEN None ELSE State(s.pos, <<>>)

NotResult(r, s) == IF Truthy(r) THEN None ELSE s

\* The box a regex match updates: the one parsing was given, which under a
\* negation is the fresh [0] made for it.
UtmostBoxShared(us) == 1

UtmostBox(us) == Len(us)

\* try: return memos[name, pos]
MemoizedNever(key) == FALSE

Memoized(key) == memoizing /\ key \in DOMAIN memos

\* for token in tokens: st = parsing(token, ...): the state after a token that
\* succeeded, at the next token.
AdvanceStuck(f, r) == f

Advance(f, r) == [f EXCEPT !.st = r, !.i = @ + 1]

Unparsable(name, prefix, suffix) ==
  [tag |-> "Unparsable", args |-> <<name, prefix, suffix>>]

Running == [tag |-> "running"]

(***************************************************************************)
(* The operations.                                                         *)
(***************************************************************************)

\* Parser(grammar, **actions): rules = extend(parse_grammar(grammar), **actions)
Parser ==
  /\ pc = "Parser"
  /\ LET g == parse_grammar(grammar)
     IN IF g.tag = "rules"
        THEN /\ rules' = extend(g.rules, Actions(actions))
             /\ pc' = "parse"
             /\ outcome' = outcome
        ELSE /\ rules' = rules
             /\ pc' = "done"
             /\ outcome' = g
  /\ UNCHANGED <<grammar, actions, text, memos, utmosts, stack, peg, st, ret,
                 tried, derivations, reached, peeked, memoizing, first>>

\* parse(peg, text): utmost = [0]; parsing(peg, {}, text, {}, utmost, State(0, ()))
\* and, in parsing, peg = ('_start', peg) for the rule table.
Parse ==
  /\ pc = "parse"
  /\ memos' = <<>>
  /\ utmosts' = <<0>>
  /\ stack' = <<>>
  /\ peg' = StartName
  /\ st' = State(0, <<>>)
  /\ pc' = "rule"
  /\ tried' = <<>>
  /\ derivations' = <<>>
  /\ reached' = 0
  /\ peeked' = 0
  /\ UNCHANGED <<grammar, actions, text, rules, ret, outcome, memoizing, first>>

\* parsing, peg.startswith('!'): parsing(peg[1:], rules, text, memos, [0], st)
ParsingNot ==
  /\ pc = "call"
  /\ Len(peg) >= 1 /\ peg[1] = "!"
  /\ Len(stack) < MaxDepth
  /\ stack' = Append(stack, NotFrame(st))
  /\ utmosts' = Append(utmosts, 0)
  /\ peg' = Tail(peg)
  /\ UNCHANGED <<grammar, actions, text, pc, rules, memos, st, ret, outcome,
                 tried, derivations, reached, peeked, memoizing, first>>

\* parsing, peg in rules and rules[peg] is a rule: parsing((peg, rules), ...)
ParsingRule ==
  /\ pc = "call"
  /\ ~(Len(peg) >= 1 /\ peg[1] = "!")
  /\ peg \in DOMAIN rules
  /\ rules[peg].kind = "rule"
  /\ pc' = "rule"
  /\ UNCHANGED <<grammar, actions, text, rules, memos, utmosts, stack, peg, st,
                 ret, outcome, tried, derivations, reached, peeked, memoizing, first>>

\* parsing, peg in rules and rules[peg] is callable: parsing(rules[peg], ...)
ParsingCallable ==
  /\ pc = "call"
  /\ ~(Len(peg) >= 1 /\ peg[1] = "!")
  /\ peg \in DOMAIN rules
  /\ rules[peg].kind = "callable"
  /\ ret' = ApplyCallable(rules[peg], text, utmosts[UtmostBox(utmosts)], st)
  /\ pc' = "ret"
  /\ UNCHANGED <<grammar, actions, text, rules, memos, utmosts, stack, peg, st,
                 outcome, tried, derivations, reached, peeked, memoizing, first>>

\* parsing, any other string: match(peg, rules, text, memos, utmost, st)
Match ==
  /\ pc = "call"
  /\ ~(Len(peg) >= 1 /\ peg[1] = "!")
  /\ peg \notin DOMAIN rules
  /\ LET r == match(peg, text, st)
     IN IF r.tag = "BadGrammar"
        THEN /\ outcome' = r
             /\ pc' = "done"
             /\ stack' = <<>>
             /\ UNCHANGED <<ret, utmosts, reached, peeked>>
        ELSE /\ ret' = r
             /\ pc' = "ret"
             /\ utmosts' = IF Truthy(r)
                           THEN [utmosts EXCEPT ![UtmostBox(utmosts)] = Max(@, r.pos)]
                           ELSE utmosts
             /\ reached' = IF Truthy(r) /\ ~InNegation(stack)
                           THEN Max(reached, r.pos) ELSE reached
             /\ peeked' = IF Truthy(r) /\ InNegation(stack)
                          THEN Max(peeked, r.pos) ELSE peeked
             /\ UNCHANGED <<outcome, stack>>
  /\ UNCHANGED <<grammar, actions, text, rules, memos, peg, st, tried,
                 derivations, memoizing, first>>

\* parse_rule, the memo holds (name, pos): return memos[name, pos]; and its
\* caller parsing: st2 and State(st2.pos, st.vals + st2.vals)
ParseRuleHit ==
  /\ pc = "rule"
  /\ Memoized(<<peg, st.pos>>)
  /\ ret' = Combine(st, memos[<<peg, st.pos>>])
  /\ pc' = "ret"
  /\ UNCHANGED <<grammar, actions, text, rules, memos, utmosts, stack, peg, st,
                 outcome, tried, derivations, reached, peeked, memoizing, first>>

\* parse_rule, the memo does not: really_parse_rule starts on the first
\* alternative, parse_sequence on st = State(pos, ()).
ParseRuleMiss ==
  /\ pc = "rule"
  /\ ~Memoized(<<peg, st.pos>>)
  /\ Len(stack) < MaxDepth
  /\ stack' = Append(stack, RuleFrame(peg, st.pos, st))
  /\ pc' = "seq"
  /\ tried' = (<<peg, st.pos>> :> <<>>) @@ tried
  /\ derivations' =
       (<<peg, st.pos>> :> (IF <<peg, st.pos>> \in DOMAIN derivations
                            THEN derivations[<<peg, st.pos>>] + 1 ELSE 1))
       @@ derivations
  /\ UNCHANGED <<grammar, actions, text, rules, memos, utmosts, peg, st, ret,
                 outcome, reached, peeked, memoizing, first>>

\* parse_sequence, a token is left: st = parsing(token, ..., st)
SequenceToken ==
  /\ pc = "seq"
  /\ LET f == Top(stack)
     IN /\ f.i <= Len(Alternative(f))
        /\ peg' = Alternative(f)[f.i]
        /\ st' = f.st
  /\ pc' = "call"
  /\ UNCHANGED <<grammar, actions, text, rules, memos, utmosts, stack, ret,
                 outcome, tried, derivations, reached, peeked, memoizing, first>>

\* parse_sequence is through its tokens and returns st; really_parse_rule
\* returns it (if st: return st); parse_rule stores and returns it; parsing
\* appends its values to the caller's.
SequenceDoneLast ==
  /\ pc = "seq"
  /\ LET f == Top(stack)
         key == <<f.name, f.pos>>
     IN /\ f.i > Len(Alternative(f))
        /\ tried' = [tried EXCEPT ![key] =
                       Append(@, [tokens |-> Alternative(f), res |-> f.st])]
        /\ IF f.alt < Len(Alts(f.name))
           THEN /\ stack' = [stack EXCEPT ![Len(stack)] =
                               [f EXCEPT !.alt = @ + 1, !.i = 1,
                                         !.st = State(f.pos, <<>>)]]
                /\ pc' = "seq"
                /\ UNCHANGED <<memos, ret>>
           ELSE /\ memos' = (key :> f.st) @@ memos
                /\ stack' = Pop(stack)
                /\ ret' = Combine(f.caller, f.st)
                /\ pc' = "ret"
  /\ UNCHANGED <<grammar, actions, text, rules, utmosts, peg, st, outcome,
                 derivations, reached, peeked, memoizing, first>>

SequenceDone ==
  /\ pc = "seq"
  /\ LET f == Top(stack)
         key == <<f.name, f.pos>>
     IN /\ f.i > Len(Alternative(f))
        /\ memos' = (key :> f.st) @@ memos
        /\ stack' = Pop(stack)
        /\ ret' = Combine(f.caller, f.st)
        /\ tried' = [tried EXCEPT ![key] =
                       Append(@, [tokens |-> Alternative(f), res |-> f.st])]
  /\ pc' = "ret"
  /\ UNCHANGED <<grammar, actions, text, rules, utmosts, peg, st, outcome,
                 derivations, reached, peeked, memoizing, first>>

\* parse_sequence, the token succeeded: on to the next token.
TokenSucceeded ==
  /\ pc = "ret"
  /\ stack # <<>>
  /\ Top(stack).kind = "rule"
  /\ Truthy(ret)
  /\ stack' = [stack EXCEPT ![Len(stack)] = Advance(@, ret)]
  /\ pc' = "seq"
  /\ UNCHANGED <<grammar, actions, text, rules, memos, utmosts, peg, st, ret,
                 outcome, tried, derivations, reached, peeked, memoizing, first>>

\* parse_sequence, the token failed (if not st: break) and really_parse_rule
\* has another alternative: parse_sequence(alternative, ..., pos)
AlternativeFailed ==
  /\ pc = "ret"
  /\ stack # <<>>
  /\ Top(stack).kind = "rule"
  /\ ~Truthy(ret)
  /\ LET f == Top(stack)
     IN /\ f.alt < Len(Alts(f.name))
        /\ stack' = [stack EXCEPT ![Len(stack)] =
                       [f EXCEPT !.alt = @ + 1, !.i = 1, !.st = State(f.pos, <<>>)]]
        /\ tried' = [tried EXCEPT ![<<f.name, f.pos>>] =
                       Append(@, [tokens |-> Alternative(f), res |-> None])]
  /\ pc' = "seq"
  /\ UNCHANGED <<grammar, actions, text, rules, memos, utmosts, peg, st, ret,
                 outcome, derivations, reached, peeked, memoizing, first>>

\* the token failed and it was the last alternative: really_parse_rule
\* returns None; parse_rule stores and returns it; so does parsing.
RuleFailed ==
  /\ pc = "ret"
  /\ stack # <<>>
  /\ Top(stack).kind = "rule"
  /\ ~Truthy(ret)
  /\ LET f == Top(stack)
         key == <<f.name, f.pos>>
     IN /\ f.alt >= Len(Alts(f.name))
        /\ memos' = (key :> None) @@ memos
        /\ stack' = Pop(stack)
        /\ ret' = Combine(f.caller, None)
        /\ tried' = [tried EXCEPT ![key] =
                       Append(@, [tokens |-> Alternative(f), res |-> None])]
  /\ UNCHANGED <<grammar, actions, text, pc, rules, utmosts, peg, st, outcome,
                 derivations, reached, peeked, memoizing, first>>

\* parsing, the token a negation wraps has returned:
\* return None if parsing(peg[1:], ...) else st; the fresh box is dropped.
NotReturn ==
  /\ pc = "ret"
  /\ stack # <<>>
  /\ Top(stack).kind = "not"
  /\ ret' = NotResult(ret, Top(stack).st)
  /\ stack' = Pop(stack)
  /\ utmosts' = Pop(utmosts)
  /\ UNCHANGED <<grammar, actions, text, pc, rules, memos, peg, st, outcome,
                 tried, derivations, reached, peeked, memoizing, first>>

\* parse: if st: return st.vals
\* else: raise Unparsable(peg['_start'][0][0], text[:utmost[0]], text[utmost[0]:])
ParseReturn ==
  /\ pc = "ret"
  /\ stack = <<>>
  /\ outcome' = IF Truthy(ret) THEN [tag |-> "vals", vals |-> ret.vals]
                ELSE Unparsable(Alts(StartName)[1][1],
                                SubSeq(text, 1, utmosts[1]),
                                Drop(text, utmosts[1]))
  /\ pc' = "done"
  /\ UNCHANGED <<grammar, actions, text, rules, memos, utmosts, stack, peg, st,
                 ret, tried, derivations, reached, peeked, memoizing, first>>

\* The same parsing function called again on the same text, never reading
\* the memo table: the reference run of the memoization claim.
Rerun ==
  /\ pc = "done"
  /\ memoizing
  /\ outcome.tag \in {"vals", "Unparsable"}
  /\ first' = [outcome |-> outcome, utmost |-> utmosts[1]]
  /\ memoizing' = FALSE
  /\ outcome' = Running
  /\ pc' = "parse"
  /\ UNCHANGED <<grammar, actions, text, rules, memos, utmosts, stack, peg, st,
                 ret, tried, derivations, reached, peeked>>

(***************************************************************************)
(* The inputs.                                                             *)
(***************************************************************************)
InputAlphabet == {"x", "y"}
GrammarAlphabet == {" ", "a", "=", "|"}

Strings(alphabet, n) == UNION {[1..k -> alphabet] : k \in 0..n}

Texts == Strings(InputAlphabet, MaxTextLen) \cup {<<"b", "a", "r">>}

ActionSets == {{}, {HugName, PositionName}}

\* ordered choice: the second alternative would match more:
\*     s = (x) | (xy)
G_choice ==
  <<"s", " ", "=", " ", "(", "x", ")", " ", "|", " ", "(", "x", "y", ")">>
\* a rule over several lines (test multiline_rules):
\*     hi = /x /y
\*        /x
\*      | /y /x
G_multiline ==
  <<"h", "i", " ", "=", " ", "/", "x", " ", "/", "y", "\n", " ", " ", " ",
    "/", "x", "\n", " ", "|", " ", "/", "y", " ", "/", "x">>
\* a rule first derived inside a negation, then used outside:
\*     s = !n b /y
\*     n = b /x
\*     b = /x
G_lookahead ==
  <<"s", " ", "=", " ", "!", "n", " ", "b", " ", "/", "y", "\n", "n", " ",
    "=", " ", "b", " ", "/", "x", "\n", "b", " ", "=", " ", "/", "x">>
\* identifier-shaped tokens that are no rules:
\*     a = x | y
\*     x = foo
\*     y = bar
G_example2 ==
  <<"a", " ", "=", " ", "x", " ", "|", " ", "y", "\n", "x", " ", "=", " ",
    "f", "o", "o", "\n", "y", " ", "=", " ", "b", "a", "r">>
\* the same with the tokens marked as regexes:
\*     a = x | y
\*     x = /foo
\*     y = /bar
G_slashed ==
  <<"a", " ", "=", " ", "x", " ", "|", " ", "y", "\n", "x", " ", "=", " ",
    "/", "f", "o", "o", "\n", "y", " ", "=", " ", "/", "b", "a", "r">>
\* an undefined name in one alternative:
\*     s = /y | /x z | /x
G_missing ==
  <<"s", " ", "=", " ", "/", "y", " ", "|", " ", "/", "x", " ", "z", " ",
    "|", " ", "/", "x">>
\* an undefined name under a negation:
\*     s = /x !z | /y
G_notmissing ==
  <<"s", " ", "=", " ", "/", "x", " ", "!", "z", " ", "|", " ", "/", "y">>
\* actions and the position helper:
\*     s = (x) t hug
\*     t = (y) hug | (x) position
G_actions ==
  <<"s", " ", "=", " ", "(", "x", ")", " ", "t", " ", "h", "u", "g", "\n",
    "t", " ", "=", " ", "(", "y", ")", " ", "h", "u", "g", " ", "|", " ",
    "(", "x", ")", " ", "p", "o", "s", "i", "t", "i", "o", "n">>
\* recursion, an empty alternative, end of input:
\*     s = e !.
\*     e = (x) e |
G_balanced ==
  <<"s", " ", "=", " ", "e", " ", "!", ".", "\n", "e", " ", "=", " ", "(",
    "x", ")", " ", "e", " ", "|">>
\* one rule asked twice at the same position:
\*     s = e /y | e /x
\*     e = (x) e | (y)
G_shared ==
  <<"s", " ", "=", " ", "e", " ", "/", "y", " ", "|", " ", "e", " ", "/",
    "x", "\n", "e", " ", "=", " ", "(", "x", ")", " ", "e", " ", "|", " ",
    "(", "y", ")">>
\* a doubled negation, twice at one position:
\*     s = !!a !!a (.)
\*     a = /x /y | /x
G_double ==
  <<"s", " ", "=", " ", "!", "!", "a", " ", "!", "!", "a", " ", "(", ".",
    ")", "\n", "a", " ", "=", " ", "/", "x", " ", "/", "y", " ", "|", " ",
    "/", "x">>
\* an action and a regex under a negation:
\*     s = (x) !hug | (.) !/x
G_notaction ==
  <<"s", " ", "=", " ", "(", "x", ")", " ", "!", "h", "u", "g", " ", "|",
    " ", "(", ".", ")", " ", "!", "/", "x">>
\* left recursion:
\*     s = s /x | /x
G_leftrec ==
  <<"s", " ", "=", " ", "s", " ", "/", "x", " ", "|", " ", "/", "x">>
\* a rule defined twice:
\*     a = /x
\*     a = /y
G_twice ==
  <<"a", " ", "=", " ", "/", "x", "\n", "a", " ", "=", " ", "/", "y">>
\* no rule header:
\*      
\*     
G_blank ==
  <<" ", "\n">>
\* no left hand side:
\*     x y
G_nolhs ==
  <<"x", " ", "y">>

Grammars ==
  {G_choice, G_multiline, G_lookahead, G_example2, G_slashed, G_missing,
   G_notmissing, G_actions, G_balanced, G_shared, G_double, G_notaction,
   G_leftrec, G_twice, G_blank, G_nolhs}

InitWith(grammars, actionSets, texts) ==
  /\ grammar \in grammars
  /\ actions \in actionSets
  /\ text \in texts
  /\ memos = <<>>
  /\ utmosts = <<0>>
  /\ stack = <<>>
  /\ peg = <<>>
  /\ st = State(0, <<>>)
  /\ ret = None
  /\ outcome = Running
  /\ tried = <<>>
  /\ derivations = <<>>
  /\ reached = 0
  /\ peeked = 0
  /\ memoizing = TRUE
  /\ first = Running

\* Parser is about to be called.
Init ==
  /\ InitWith(Grammars, ActionSets, Texts)
  /\ pc = "Parser"
  /\ rules = <<>>

\* Parser has returned the parsing function, which is about to be called.
InitParse ==
  /\ InitWith({g \in Grammars : parse_grammar(g).tag = "rules"}, ActionSets, Texts)
  /\ pc = "parse"
  /\ rules = extend(parse_grammar(grammar).rules, Actions(actions))

\* The steps of a call of the parsing function.
NextParse ==
  \/ Parse
  \/ ParsingNot
  \/ ParsingRule
  \/ ParsingCallable
  \/ Match
  \/ ParseRuleHit
  \/ ParseRuleMiss
  \/ SequenceToken
  \/ SequenceDone
  \/ TokenSucceeded
  \/ AlternativeFailed
  \/ RuleFailed
  \/ NotReturn
  \/ ParseReturn

Next ==
  \/ Parser
  \/ NextParse

\* A call of Parser and one call of the parsing function it made.
Spec == Init /\ [][Next]_vars

\* One call of the parsing function: the program is sequential and takes
\* its next step whenever there is one.
FairSpec == InitParse /\ [][NextParse]_vars /\ WF_vars(NextParse)

\* The call, then the reference run without memo lookups.
SpecRerun == Init /\ [][Next \/ Rerun]_vars

\* Parser alone, on every short grammar text.
InitCompile ==
  /\ InitWith(Strings(GrammarAlphabet, MaxGrammarLen) \cup Grammars, {{}}, {<<>>})
  /\ pc = "Parser"
  /\ rules = <<>>

SpecCompile == InitCompile /\ [][Parser]_vars

(***************************************************************************)
(* The claims.                                                             *)
(***************************************************************************)

\* The token about to be evaluated names a callable of the table.
NamesCallable ==
  /\ pc = "call"
  /\ ~(Len(peg) >= 1 /\ peg[1] = "!")
  /\ peg \in DOMAIN rules
  /\ rules[peg].kind = "callable"

\* The token about to be evaluated is an identifier the table does not hold.
ReachesMissing ==
  /\ pc = "call"
  /\ ~(Len(peg) >= 1 /\ peg[1] = "!")
  /\ peg \notin DOMAIN rules
  /\ IsIdentifier(peg)

\* The state of the sequence a token is evaluated in: that of the innermost
\* call of a rule.
RECURSIVE EnclosingState(_)
EnclosingState(s) ==
  IF Top(s).kind = "rule" THEN Top(s).st ELSE EnclosingState(Pop(s))

\* The name in the first rule header of the grammar text.
FirstDeclared == SplitHeaders(<<" ">> \o grammar, 1, 1)[2]

\* The grammar text holds no rule header.
NoHeader ==
  LET s == <<" ">> \o grammar IN \A i \in 1..Len(s) : ~HeaderAt(s, i).ok

\* C1. Ordered choice: whenever the resolution of a rule at a position has
\* returned, the alternatives it evaluated are the rule's first ones in
\* declaration order, all of them failed but possibly the last, the result
\* is that of the last one evaluated (so the first that succeeded, and none
\* after it was evaluated), and the result is a failure only when every
\* alternative of the rule was evaluated and failed.
C1_OrderedChoice ==
  \A key \in DOMAIN memos :
    LET t == tried[key]
        alts == Alts(key[1])
    IN /\ Len(t) \in 1..Len(alts)
       /\ \A j \in 1..Len(t) : t[j].tokens = alts[j]
       /\ \A j \in 1..(Len(t) - 1) : t[j].res = None
       /\ t[Len(t)].res = memos[key]
       /\ memos[key] = None => Len(t) = Len(alts)

\* C1's case: a rule returned the result of an alternative while a later
\* alternative, never evaluated, matches more of the input there.
C1_Witness ==
  \E key \in DOMAIN memos :
    /\ Truthy(memos[key])
    /\ \E j \in (Len(tried[key]) + 1)..Len(Alts(key[1])) :
         LET a == Alts(key[1])[j]
         IN /\ Len(a) = 1
            /\ a[1] \notin DOMAIN rules
            /\ ~IsIdentifier(a[1])
            /\ LET r == match_regex(a[1], text, State(key[2], <<>>))
               IN Truthy(r) /\ r.pos > memos[key].pos

\* C2. Memoization transparency: once the reference run that never reads the
\* memo table is done, its outcome (success or failure, values, and the
\* split of the text the failure carries) and its final utmost value are
\* those of the memoized run.
C2_MemoTransparent ==
  (pc = "done" /\ ~memoizing) =>
    (outcome = first.outcome /\ utmosts[1] = first.utmost)

\* C3. When the parse fails, the error carries the name of the first rule
\* declared and the text split at the largest end of a regex match made
\* outside negations (0 if none), matches of abandoned alternatives
\* counted and matches made under a negation not.
C3_FurthestDiagnostic ==
  (pc = "done" /\ outcome.tag = "Unparsable") =>
    outcome.args = <<FirstDeclared, SubSeq(text, 1, reached), Drop(text, reached)>>

\* C3's case: a failed parse in which a match outside negations advanced
\* and a match under a negation went further.
C3_Witness ==
  /\ pc = "done"
  /\ outcome.tag = "Unparsable"
  /\ reached > 0
  /\ peeked > reached

\* C4. Negation is zero-width: when the token a negation wraps returns, the
\* negation fails if it succeeded, and otherwise returns the state of the
\* enclosing sequence as it was before the negated token, position and
\* values alike.
C4_NegationZeroWidth ==
  [][(pc = "ret" /\ stack # <<>> /\ Top(stack).kind = "not") =>
       /\ Truthy(ret) => ret' = None
       /\ ~Truthy(ret) => ret' = EnclosingState(stack)]_vars

\* C4's case: the wrapped token of a negation has failed where the
\* enclosing sequence holds values.
C4_Witness ==
  /\ pc = "ret"
  /\ stack # <<>>
  /\ Top(stack).kind = "not"
  /\ ~Truthy(ret)
  /\ EnclosingState(stack).vals # <<>>

\* C5, as stated: a token naming any callable of the table succeeds at the
\* same position with a single value, the callable's result.
C5_AnyCallableReplaces ==
  [][NamesCallable =>
       /\ pc' = "ret"
       /\ Truthy(ret')
       /\ ret'.pos = st.pos
       /\ Len(ret'.vals) = 1]_vars

\* C5, amended: a token naming a callable without the is_peg mark succeeds
\* at the same position, its values the single result of the callable on
\* all the values of the enclosing alternative so far; and when a rule
\* returns, its caller gets its own values followed by the rule's.
C5_ActionReplaces ==
  [][/\ (NamesCallable /\ ~rules[peg].is_peg) =>
          /\ pc' = "ret"
          /\ ret' = State(st.pos, <<hug(st.vals)>>)
          /\ st = EnclosingState(stack)
     /\ (pc = "seq" /\ pc' = "ret") =>
          /\ Truthy(ret')
          /\ ret'.pos = Top(stack).st.pos
          /\ ret'.vals = Top(stack).caller.vals \o Top(stack).st.vals]_vars

\* C5's case: an action is about to be applied to several values.
C5_Witness ==
  /\ NamesCallable
  /\ ~rules[peg].is_peg
  /\ Len(st.vals) >= 2

\* C6. A missing rule is detected lazily: evaluating an identifier that the
\* table does not hold ends the parse with a grammar error at once, and a
\* parse raises a grammar error only so.
C6_LazyMissingRule ==
  [][/\ ReachesMissing =>
          (pc' = "done" /\ outcome' = MissingRule(peg))
     /\ (pc # "Parser" /\ outcome'.tag = "BadGrammar" /\ outcome.tag # "BadGrammar")
          => ReachesMissing
     /\ (pc # "Parser" /\ pc' = "done") =>
          outcome'.tag \in {"vals", "Unparsable", "BadGrammar"}]_vars

\* C6's case: the grammar error was raised in the second alternative of
\*     s = /y | /x z | /x
\* on a text the third alternative matches.
C6_Witness ==
  /\ pc = "done"
  /\ outcome.tag = "BadGrammar"
  /\ outcome.msg = "Missing rule"
  /\ grammar = G_missing
  /\ Len(text) >= 1 /\ text[1] = "x"

\* C7. Termination: unless a rule is entered again at the same position
\* while it is being derived (left recursion), the parse ends.
C7_Terminates == <>(pc = "done" \/ Reentered)

\* C7's case: a parse that went through a rule calling itself has ended.
C7_Witness ==
  /\ pc = "done"
  /\ outcome.tag \in {"vals", "Unparsable"}
  /\ \E j, k \in DOMAIN memos : j[1] = k[1] /\ j[2] < k[2] /\ j[1] # StartName

\* C8. A grammar text without any rule header is refused with a grammar
\* error: no rule table is made of it and nothing else is raised.
C8_NoHeaderIsGrammarError ==
  NoHeader => (pc # "parse" /\ (pc = "done" => outcome.tag = "BadGrammar"))

\* C9, as stated: on the text bar the grammar  a = x | y, x = foo, y = bar
\* without actions parses to the empty tuple.
C9_Example2Succeeds ==
  (pc = "done" /\ grammar = G_example2 /\ actions = {} /\ text = <<"b", "a", "r">>)
    => outcome = [tag |-> "vals", vals |-> <<>>]

\* C9, amended: on the text bar and without actions, that grammar raises the
\* grammar error for the missing rule foo, reached in x before y is tried;
\* with its tokens written /foo and /bar, x fails, y succeeds and the
\* result is the empty tuple.
C9_Example2 ==
  (pc = "done" /\ actions = {} /\ text = <<"b", "a", "r">>) =>
    /\ grammar = G_example2 =>
         /\ outcome = MissingRule(<<"f", "o", "o">>)
         /\ <<<<"y">>, 0>> \notin DOMAIN tried
    /\ grammar = G_slashed =>
         /\ outcome = [tag |-> "vals", vals |-> <<>>]
         /\ memos[<<<<"x">>, 0>>] = None
         /\ memos[<<<<"y">>, 0>>] = State(3, <<>>)
         /\ tried[<<<<"a">>, 0>>] =
              << [tokens |-> <<<<"x">>>>, res |-> None],
                 [tokens |-> <<<<"y">>>>, res |-> State(3, <<>>)] >>

\* C9's case: the parse of bar with the grammar as written has ended.
C9_Witness ==
  /\ pc = "done"
  /\ grammar = G_example2
  /\ actions = {}
  /\ text = <<"b", "a", "r">>

\* C10. Without left recursion a (name, position) pair is derived at most
\* once in a parse; a derivation that is over has its result in the memo
\* table (unless a grammar error ended the parse before it returned); a
\* resolution that finds the pair there returns the stored result and
\* evaluates nothing; and an entry of the table never changes.
C10_DerivedOnce ==
  /\ [](~Reentered =>
          \A key \in DOMAIN derivations :
            /\ derivations[key] <= 1
            /\ \/ key \in DOMAIN memos
               \/ \E k \in 1..Len(stack) :
                    stack[k].kind = "rule" /\ <<stack[k].name, stack[k].pos>> = key
               \/ outcome.tag = "BadGrammar")
  /\ [][/\ \A key \in DOMAIN memos :
             pc # "parse" => (key \in DOMAIN memos' /\ memos'[key] = memos[key])
        /\ (pc = "rule" /\ <<peg, st.pos>> \in DOMAIN memos) =>
             /\ ret' = Combine(st, memos[<<peg, st.pos>>])
             /\ pc' = "ret"
             /\ UNCHANGED <<stack, memos, derivations, tried, utmosts>>]_vars

\* C10's case: a rule is resolved under a negation at a position where the
\* memo table holds it.
C10_Witness ==
  /\ pc = "rule"
  /\ <<peg, st.pos>> \in DOMAIN memos
  /\ InNegation(stack)
====
